---- MODULE Spec2Model ----
(***************************************************************************)
(* Model of the image-generation workers of jamkillerartist.               *)
(*                                                                         *)
(* The repository holds four variants of one Hono worker:                  *)
(*   W1  src/worker/index.ts lines 1-168    (flux, aiResponse.image)       *)
(*   W2  src/worker/index.ts lines 169-310  (SDXL, aiResponse.images[0])   *)
(*   P0  src/unnamed/part_000               (Response -> base64, TTL)      *)
(*   P1  src/unnamed/part_001               (stream/Response -> base64)    *)
(* W1 and W2 expose GET/DELETE /image/:userId and POST /generate; P0 and   *)
(* P1 expose POST /generate only.                                          *)
(*                                                                         *)
(* Strings are sequences of one-character strings, byte buffers are        *)
(* sequences of numbers in 0..255, JavaScript values are tagged records.   *)
(***************************************************************************)
EXTENDS Integers, Sequences, FiniteSets, TLC

VARIABLES variant, env, store, live, last, reqs, drain

vars == <<variant, env, store, live, last, reqs, drain>>

(***************************************************************************)
(* Bounds of the model.                                                    *)
(***************************************************************************)
MaxBytes == 1
MaxChunks == 2
NSlots == 2
MaxStreamChunks == 3
MaxChunkLen == 2

(***************************************************************************)
(* JavaScript values.                                                      *)
(***************************************************************************)
Undefined == [t |-> "undefined", v |-> <<>>]
Str(s) == [t |-> "string", v |-> s]
Num(n) == [t |-> "number", v |-> n]
Arr(a) == [t |-> "array", v |-> a]

\* !x is FALSE exactly for the truthy values
Truthy(x) ==
  CASE x.t = "undefined" -> FALSE
    [] x.t = "string" -> x.v # <<>>
    [] x.t = "number" -> x.v # 0
    [] OTHER -> TRUE

RECURSIVE TrimStart(_)
TrimStart(s) ==
  IF s # <<>> /\ Head(s) = " " THEN TrimStart(Tail(s)) ELSE s

RECURSIVE TrimEnd(_)
TrimEnd(s) ==
  IF s # <<>> /\ s[Len(s)] = " " THEN TrimEnd(SubSeq(s, 1, Len(s) - 1)) ELSE s

\* String.prototype.trim
Trim(s) == TrimEnd(TrimStart(s))

\* typeof x !== 'string' || x.trim() === ''  after the !x test
NonEmptyString(x) == Truthy(x) /\ x.t = "string" /\ Trim(x.v) # <<>>

(***************************************************************************)
(* Byte buffers and their encoding.                                        *)
(***************************************************************************)
ByteVals == {0, 255}

SeqsUpTo(S, n) == UNION {[1..k -> S] : k \in 0..n}

\* the image buffers AI.run delivers to the handlers
ImageBytes == {255}
Bufs == SeqsUpTo(ImageBytes, MaxBytes)

Base64Alphabet ==
  << "A","B","C","D","E","F","G","H","I","J","K","L","M","N","O","P",
     "Q","R","S","T","U","V","W","X","Y","Z","a","b","c","d","e","f",
     "g","h","i","j","k","l","m","n","o","p","q","r","s","t","u","v",
     "w","x","y","z","0","1","2","3","4","5","6","7","8","9","+","/" >>

B64(i) == Base64Alphabet[i + 1]

RECURSIVE btoa(_)
btoa(bin) ==
  IF Len(bin) = 0 THEN <<>>
  ELSE IF Len(bin) = 1 THEN
    << B64(bin[1] \div 4), B64((bin[1] % 4) * 16), "=", "=" >>
  ELSE IF Len(bin) = 2 THEN
    << B64(bin[1] \div 4), B64((bin[1] % 4) * 16 + bin[2] \div 16),
       B64((bin[2] % 16) * 4), "=" >>
  ELSE
    << B64(bin[1] \div 4), B64((bin[1] % 4) * 16 + bin[2] \div 16),
       B64((bin[2] % 16) * 4 + bin[3] \div 64), B64(bin[3] % 64) >>
    \o btoa(SubSeq(bin, 4, Len(bin)))

\* binary += String.fromCharCode(bytes[i]) for each byte, then btoa(binary)
arrayBufferToBase64(buffer) ==
  LET binary == [i \in 1..Len(buffer) |-> buffer[i]]
  IN  btoa(binary)

(***************************************************************************)
(* streamToArrayBuffer: the read loop, then the copy loop.                 *)
(***************************************************************************)
RECURSIVE ReadLoop(_, _, _)
ReadLoop(stream, chunks, totalLength) ==
  IF stream = <<>> THEN [chunks |-> chunks, totalLength |-> totalLength]
  ELSE ReadLoop(Tail(stream), Append(chunks, Head(stream)),
                totalLength + Len(Head(stream)))

\* Uint8Array.prototype.set(chunk, offset)
TypedArraySet(result, chunk, offset) ==
  [i \in 1..Len(result) |->
     IF i > offset /\ i <= offset + Len(chunk) THEN chunk[i - offset]
     ELSE result[i]]

\* the copy loop with the offset left where it was
NextOffset_Stuck(offset, chunk) == offset

\* offset += chunk.length
NextOffset(offset, chunk) == offset + Len(chunk)

RECURSIVE CopyLoop(_, _, _)
CopyLoop(chunks, result, offset) ==
  IF chunks = <<>> THEN result
  ELSE CopyLoop(Tail(chunks), TypedArraySet(result, Head(chunks), offset),
                NextOffset(offset, Head(chunks)))

streamToArrayBuffer(stream) ==
  LET r == ReadLoop(stream, <<>>, 0)
  IN  CopyLoop(r.chunks, [i \in 1..r.totalLength |-> 0], 0)

(***************************************************************************)
(* Deployment and inputs.                                                  *)
(***************************************************************************)
Variants == {"W1", "W2", "P0", "P1"}
WVariants == {"W1", "W2"}
PVariants == {"P0", "P1"}

\* c.env: which bindings the deployment defines
Envs == {[AI |-> TRUE, KV |-> TRUE], [AI |-> FALSE, KV |-> TRUE],
         [AI |-> TRUE, KV |-> FALSE]}

\* values the prompt and userId fields of a decoded body may hold
Prompts == {Undefined, Num(7), Str(<<>>), Str(<<" ">>), Str(<<" ", "a">>)}
UserIds == {Undefined, Num(0), Str(<<>>), Str(<<" ">>), Str(<<"a">>),
            Str(<<" ", "b">>)}

\* keys of the KV namespace and :userId path parameters (the empty one
\* is what the handlers' !userId test is written for)
Keys == {<<" ">>, <<"a">>, <<" ", "b">>, <<"b">>}
Params == Keys \cup {<<>>}

\* decoded request bodies; ok is FALSE when c.req.json() throws
Body(ok, prompt, userId) == [ok |-> ok, prompt |-> prompt, userId |-> userId]
Bodies ==
  {Body(FALSE, Undefined, Undefined), Body(TRUE, Undefined, Undefined)}
  \cup {Body(TRUE, p, Str(<<"a">>)) : p \in Prompts}
  \cup {Body(TRUE, Str(<<" ", "a">>), u) : u \in UserIds}

KvOutcomes == {"ok", "throws"}

\* what AI.run may deliver
AiVal(kind, image, images, bytes, chunks) ==
  [kind |-> kind, image |-> image, images |-> images, bytes |-> bytes,
   chunks |-> chunks]

AiNone == AiVal("none", Undefined, Undefined, <<>>, <<>>)
AiThrow == AiVal("throw", Undefined, Undefined, <<>>, <<>>)
AiNumber == AiVal("number", Undefined, Undefined, <<>>, <<>>)
AiNull == AiVal("null", Undefined, Undefined, <<>>, <<>>)
AiObject(image, images) == AiVal("object", image, images, <<>>, <<>>)
AiResponse(bytes) == AiVal("response", Undefined, Undefined, bytes, <<>>)
AiStream(chunks) == AiVal("stream", Undefined, Undefined, <<>>, chunks)

RECURSIVE SumLen(_)
SumLen(chunks) ==
  IF chunks = <<>> THEN 0 ELSE Len(Head(chunks)) + SumLen(Tail(chunks))

Streams == {cs \in SeqsUpTo(Bufs, MaxChunks) : SumLen(cs) <= MaxBytes}

\* image texts a structured response may carry
ImageTexts ==
  {arrayBufferToBase64(<<>>), arrayBufferToBase64(<<0>>),
   arrayBufferToBase64(<<255>>)}

AiObjects ==
  {AiObject(Undefined, Undefined), AiObject(Undefined, Arr(<<>>))}
  \cup {AiObject(Str(t), Undefined) : t \in ImageTexts}
  \cup {AiObject(Undefined, Arr(<<t>>)) : t \in ImageTexts}

AiOutcomes ==
  {AiThrow, AiNumber, AiNull} \cup AiObjects
  \cup {AiResponse(b) : b \in Bufs} \cup {AiStream(cs) : cs \in Streams}

(***************************************************************************)
(* The KV namespace.                                                       *)
(***************************************************************************)
NoEntry == [present |-> FALSE, value |-> <<>>, ttl |-> 0]
Entry(value, ttl) == [present |-> TRUE, value |-> value, ttl |-> ttl]

expirationTtl == 2592000

KvPut(s, key, value, ttl) == [s EXCEPT ![key] = Entry(value, ttl)]
KvDelete(s, key) == [s EXCEPT ![key] = NoEntry]
\* get(key): null for a missing key, else the stored text
KvGet(s, key) ==
  IF s[key].present THEN Str(s[key].value) ELSE Undefined

(***************************************************************************)
(* A request: where its handler is, what it has computed, its response.    *)
(***************************************************************************)
NoReq ==
  [route |-> "none", pc |-> "idle", bodyOk |-> TRUE, prompt |-> Undefined,
   userId |-> Undefined, key |-> <<>>, aiOut |-> AiNone, buf |-> <<>>,
   val |-> <<>>, ttl |-> 0, stages |-> <<>>, aiCalls |-> 0, putCalls |-> 0,
   getCalls |-> 0, delCalls |-> 0, responses |-> 0, status |-> 0,
   kvOut |-> "none", error |-> "", detail |-> "", respUserId |-> Undefined,
   respImage |-> <<>>]

\* return c.json(..., status): the handler is over
Respond(req, status, error, detail) ==
  [req EXCEPT !.pc = "done", !.status = status, !.error = error,
              !.detail = detail, !.stages = Append(@, "Responded"),
              !.responses = @ + 1]

\* the message of the route's catch block
CatchError(v, route) ==
  IF route = "generate"
  THEN (IF v = "P0" THEN "Failed to generate or store image"
        ELSE "Failed to generate image")
  ELSE "Internal server error"

CatchDetail(v, route) ==
  IF v = "P1" /\ route = "generate" THEN "error.message" ELSE ""

Caught(v, req) ==
  Respond(req, 500, CatchError(v, req.route), CatchDetail(v, req.route))

(***************************************************************************)
(* POST /generate                                                          *)
(***************************************************************************)
\* the validation of the decoded body: "" when it passes, else the message
ValidateBody(v, prompt, userId) ==
  IF v \in WVariants
  THEN (IF ~Truthy(prompt) \/ ~Truthy(userId)
        THEN "Prompt and user ID are required" ELSE "")
  ELSE IF ~NonEmptyString(prompt)
       THEN "Prompt is required and must be a non-empty string"
  ELSE IF ~NonEmptyString(userId)
       THEN "userId is required and must be a non-empty string"
  ELSE ""

\* every artifact put under one key
PutKey_Shared(v, userId) == <<"a">>

\* the key the artifact is put under: userId as given, or sanitizedUserId
PutKey(v, userId) ==
  IF v \in WVariants THEN userId.v ELSE Trim(userId.v)

\* the userId field of the success payload
RespUserId(v, userId) ==
  IF v \in WVariants THEN userId
  ELSE IF v = "P0" THEN Str(Trim(userId.v))
  ELSE Undefined

PutTtl(v) == IF v \in PVariants THEN expirationTtl ELSE 0

\* from the start of the handler to the await of AI.run
PostGenerateStart(v, e, bodyOk, prompt, userId) ==
  LET r0 == [NoReq EXCEPT !.route = "generate", !.bodyOk = bodyOk,
                          !.prompt = prompt, !.userId = userId,
                          !.stages = <<"Received">>]
      msg == ValidateBody(v, prompt, userId)
      r1 == [r0 EXCEPT !.key = PutKey(v, userId),
                       !.stages = Append(@, "Validated")]
  IN  IF ~bodyOk THEN Caught(v, r0)
      ELSE IF msg # "" THEN Respond(r0, 400, msg, "")
      ELSE IF ~e.AI
      THEN (IF v = "W1" THEN Respond(r1, 500, "Service configuration error", "")
            ELSE Caught(v, r1))
      ELSE [r1 EXCEPT !.pc = "awaitAI", !.aiCalls = @ + 1,
                      !.stages = Append(@, "Invoked")]

\* String(aiResponse) of the invalid-response branch
StringOf(aiOut) ==
  CASE aiOut.kind = "number" -> "7"
    [] aiOut.kind = "null" -> "null"
    [] OTHER -> "[object Object]"

\* the response of AI.run turned into the text to store:
\* [ok, buf, val] or [ok |-> FALSE, error, detail]
NormalizeOk(buf, val) ==
  [ok |-> TRUE, buf |-> buf, val |-> val, error |-> "", detail |-> ""]
NormalizeFail(error, detail) ==
  [ok |-> FALSE, buf |-> <<>>, val |-> <<>>, error |-> error,
   detail |-> detail]

\* only the presence of the image field tested, not its content
NormalizeW1_NoEmptyCheck(v, aiOut) ==
  IF aiOut.kind = "null" \/ aiOut.image.t = "undefined"
  THEN NormalizeFail(CatchError(v, "generate"), "")
  ELSE NormalizeOk(<<>>, aiOut.image.v)

NormalizeW1(v, aiOut) ==
  IF aiOut.kind = "null" \/ ~Truthy(aiOut.image)
  THEN NormalizeFail(CatchError(v, "generate"), "")
  ELSE NormalizeOk(<<>>, aiOut.image.v)

NormalizeW2(v, aiOut) ==
  IF aiOut.kind = "null" \/ ~Truthy(aiOut.images)
     \/ Len(aiOut.images.v) = 0 \/ ~Truthy(Str(aiOut.images.v[1]))
  THEN NormalizeFail(CatchError(v, "generate"), "")
  ELSE NormalizeOk(<<>>, aiOut.images.v[1])

NormalizeP0(v, aiOut) ==
  IF aiOut.kind = "response"
  THEN NormalizeOk(aiOut.bytes, arrayBufferToBase64(aiOut.bytes))
  ELSE NormalizeFail(CatchError(v, "generate"), "")

\* a response of another shape read as an empty buffer
NormalizeP1_Lenient(v, aiOut) ==
  IF aiOut.kind = "stream"
  THEN LET imageBuffer == streamToArrayBuffer(aiOut.chunks)
       IN  NormalizeOk(imageBuffer, arrayBufferToBase64(imageBuffer))
  ELSE IF aiOut.kind = "response"
  THEN NormalizeOk(aiOut.bytes, arrayBufferToBase64(aiOut.bytes))
  ELSE NormalizeOk(<<>>, arrayBufferToBase64(<<>>))

NormalizeP1(v, aiOut) ==
  IF aiOut.kind = "stream"
  THEN LET imageBuffer == streamToArrayBuffer(aiOut.chunks)
       IN  NormalizeOk(imageBuffer, arrayBufferToBase64(imageBuffer))
  ELSE IF aiOut.kind = "response"
  THEN NormalizeOk(aiOut.bytes, arrayBufferToBase64(aiOut.bytes))
  ELSE NormalizeFail("AI service returned invalid response",
                     StringOf(aiOut))

Normalize(v, aiOut) ==
  CASE v = "W1" -> NormalizeW1(v, aiOut)
    [] v = "W2" -> NormalizeW2(v, aiOut)
    [] v = "P0" -> NormalizeP0(v, aiOut)
    [] v = "P1" -> NormalizeP1(v, aiOut)

\* put issued without looking at the outcome of the normalization
PostGenerateAfterAI_PutFirst(v, e, req, aiOut) ==
  LET r1 == [req EXCEPT !.aiOut = aiOut]
      n == Normalize(v, aiOut)
  IN  IF aiOut.kind = "throw" THEN Caught(v, r1)
      ELSE IF ~e.KV THEN Caught(v, r1)
      ELSE [r1 EXCEPT !.buf = n.buf, !.val = n.val, !.ttl = PutTtl(v),
                      !.pc = "awaitPut", !.putCalls = @ + 1]

\* from the result of AI.run to the await of put
PostGenerateAfterAI(v, e, req, aiOut) ==
  LET r1 == [req EXCEPT !.aiOut = aiOut]
      n == Normalize(v, aiOut)
      r2 == [r1 EXCEPT !.buf = n.buf, !.val = n.val, !.ttl = PutTtl(v),
                       !.stages = @ \o <<"Normalized", "Encoded">>]
  IN  IF aiOut.kind = "throw" THEN Caught(v, r1)
      ELSE IF ~n.ok THEN Respond(r1, 500, n.error, n.detail)
      ELSE IF ~e.KV
      THEN (IF v = "W1" THEN Respond(r2, 500, "Service configuration error", "")
            ELSE Caught(v, r2))
      ELSE [r2 EXCEPT !.pc = "awaitPut", !.putCalls = @ + 1]

DataUriPrefix ==
  << "d","a","t","a",":","i","m","a","g","e","/","p","n","g",";",
     "b","a","s","e","6","4","," >>

Slice(s, n) == SubSeq(s, 1, IF Len(s) < n THEN Len(s) ELSE n)

\* the image field of the success payload
RespImage(v, val) ==
  CASE v \in WVariants -> val
    [] v = "P0" -> Slice(val, 30) \o <<".", ".", ".">>
    [] v = "P1" -> DataUriPrefix \o val

\* a failure of put swallowed
PostGenerateAfterPut_IgnoresFailure(v, s, req, kvOut) ==
  [store |-> IF kvOut = "throws" THEN s
             ELSE KvPut(s, req.key, req.val, req.ttl),
   req |-> Respond([req EXCEPT !.kvOut = kvOut,
                               !.stages = Append(@, "Stored"),
                               !.respUserId = RespUserId(v, req.userId),
                               !.respImage = RespImage(v, req.val)],
                   200, "", "")]

\* from the result of put to the response
PostGenerateAfterPut(v, s, req, kvOut) ==
  IF kvOut = "throws"
  THEN [store |-> s, req |-> Caught(v, [req EXCEPT !.kvOut = kvOut])]
  ELSE [store |-> KvPut(s, req.key, req.val, req.ttl),
        req |-> Respond([req EXCEPT !.kvOut = kvOut,
                                    !.stages = Append(@, "Stored"),
                                    !.respUserId = RespUserId(v, req.userId),
                                    !.respImage = RespImage(v, req.val)],
                        200, "", "")]

(***************************************************************************)
(* GET /image/:userId and DELETE /image/:userId (W1 and W2 only)           *)
(***************************************************************************)
\* from the start of a /image/:userId handler to the await of the KV call
ImageStart(v, e, route, param, pc) ==
  LET r0 == [NoReq EXCEPT !.route = route, !.userId = Str(param),
                          !.key = param, !.stages = <<"Received">>]
  IN  IF ~Truthy(Str(param)) THEN Respond(r0, 400, "User ID is required", "")
      ELSE IF ~e.KV
      THEN (IF v = "W1" THEN Respond(r0, 500, "Service configuration error", "")
            ELSE Caught(v, r0))
      ELSE [r0 EXCEPT !.pc = pc]

GetImageStart(v, e, param) ==
  LET r == ImageStart(v, e, "get", param, "awaitGet")
  IN  IF r.pc = "awaitGet" THEN [r EXCEPT !.getCalls = @ + 1] ELSE r

\* the stored text wrapped in a data URI on the way out
GetImageAfterGet_DataUri(v, s, req, kvOut) ==
  LET image == KvGet(s, req.key)
      r == [req EXCEPT !.kvOut = kvOut]
  IN  IF kvOut = "throws" THEN Caught(v, r)
      ELSE IF ~Truthy(image) THEN Respond(r, 404, "No image found", "")
      ELSE Respond([r EXCEPT !.respImage = DataUriPrefix \o image.v],
                   200, "", "")

\* from the result of get to the response
GetImageAfterGet(v, s, req, kvOut) ==
  LET image == KvGet(s, req.key)
      r == [req EXCEPT !.kvOut = kvOut]
  IN  IF kvOut = "throws" THEN Caught(v, r)
      ELSE IF ~Truthy(image) THEN Respond(r, 404, "No image found", "")
      ELSE Respond([r EXCEPT !.respImage = image.v], 200, "", "")

DeleteImageStart(v, e, param) ==
  LET r == ImageStart(v, e, "delete", param, "awaitDelete")
  IN  IF r.pc = "awaitDelete" THEN [r EXCEPT !.delCalls = @ + 1] ELSE r

\* a DELETE of a user with no artifact answered 404
DeleteImageAfterDelete_NotFound(v, s, req, kvOut) ==
  LET r == [req EXCEPT !.kvOut = kvOut]
  IN  IF kvOut = "throws" THEN [store |-> s, req |-> Caught(v, r)]
      ELSE IF ~s[r.key].present
      THEN [store |-> s, req |-> Respond(r, 404, "No image found", "")]
      ELSE [store |-> KvDelete(s, r.key), req |-> Respond(r, 200, "", "")]

\* from the result of delete to the response
DeleteImageAfterDelete(v, s, req, kvOut) ==
  LET r == [req EXCEPT !.kvOut = kvOut]
  IN  IF kvOut = "throws" THEN [store |-> s, req |-> Caught(v, r)]
      ELSE [store |-> KvDelete(s, r.key), req |-> Respond(r, 200, "", "")]

(***************************************************************************)
(* History: what the responses seen so far say is stored under each user.  *)
(***************************************************************************)
NotLive == [some |-> FALSE, image |-> <<>>]
Live(image) == [some |-> TRUE, image |-> image]

\* the user a generate request is made for
AddressedUser(v, userId) ==
  IF v \in PVariants THEN Trim(userId.v) ELSE userId.v

\* the history after a request has been answered
Answered(v, l, req) ==
  IF req.status # 200 THEN l
  ELSE IF req.route = "generate"
  THEN [l EXCEPT ![AddressedUser(v, req.userId)] = Live(req.respImage)]
  ELSE IF req.route = "delete"
  THEN [l EXCEPT ![req.userId.v] = NotLive]
  ELSE l

Expired == [NoReq EXCEPT !.route = "expire", !.pc = "done"]

(***************************************************************************)
(* Spec: requests handled one at a time, each handler run to its response. *)
(***************************************************************************)
Idle == [r \in 1..NSlots |-> NoReq]
NoDrain == [pc |-> "none", stream |-> <<>>, result |-> <<>>]

Init ==
  /\ variant \in Variants
  /\ env \in Envs
  /\ store = [k \in Keys |-> NoEntry]
  /\ live = [k \in Keys |-> NotLive]
  /\ last = NoReq
  /\ reqs = <<>>
  /\ drain = NoDrain

Answer(res) ==
  \E done \in {res} :
    /\ store' = done.store
    /\ last' = done.req
    /\ live' = Answered(variant, live, done.req)
    /\ UNCHANGED <<variant, env, reqs, drain>>

Generate ==
  \E body \in Bodies :
    \E r1 \in {PostGenerateStart(variant, env, body.ok, body.prompt,
                                 body.userId)} :
      IF r1.pc # "awaitAI" THEN Answer([store |-> store, req |-> r1])
      ELSE \E aiOut \in AiOutcomes :
             \E r2 \in {PostGenerateAfterAI(variant, env, r1, aiOut)} :
               IF r2.pc # "awaitPut"
               THEN Answer([store |-> store, req |-> r2])
               ELSE \E kvOut \in KvOutcomes :
                      Answer(PostGenerateAfterPut(variant, store, r2, kvOut))

Get ==
  /\ variant \in WVariants
  /\ \E param \in Params :
       \E r \in {GetImageStart(variant, env, param)} :
         IF r.pc # "awaitGet" THEN Answer([store |-> store, req |-> r])
         ELSE \E kvOut \in KvOutcomes :
                Answer([store |-> store,
                        req |-> GetImageAfterGet(variant, store, r, kvOut)])

Delete ==
  /\ variant \in WVariants
  /\ \E param \in Params :
       \E r \in {DeleteImageStart(variant, env, param)} :
         IF r.pc # "awaitDelete" THEN Answer([store |-> store, req |-> r])
         ELSE \E kvOut \in KvOutcomes :
                Answer(DeleteImageAfterDelete(variant, store, r, kvOut))

\* the KV namespace drops an entry whose expirationTtl has run out
Expire ==
  \E k \in Keys :
    /\ store[k].present /\ store[k].ttl > 0
    /\ store' = KvDelete(store, k)
    /\ live' = [live EXCEPT ![k] = NotLive]
    /\ last' = [Expired EXCEPT !.key = k]
    /\ UNCHANGED <<variant, env, reqs, drain>>

Next == Generate \/ Get \/ Delete \/ Expire

Spec == Init /\ [][Next]_vars

(***************************************************************************)
(* SpecConc: the host runs up to NSlots requests at once; a handler is     *)
(* suspended at its await of AI.run and at its await of the KV call.       *)
(***************************************************************************)
Slots == 1..NSlots

ConcBodies ==
  {Body(TRUE, Str(<<" ", "a">>), u) : u \in {Str(<<"a">>), Str(<<" ", "b">>)}}
ConcParams == {<<"a">>, <<" ", "b">>}
ConcImages == {arrayBufferToBase64(<<255>>)}
ConcAiOutcomes ==
  {AiThrow, AiResponse(<<255>>)}
  \cup {AiObject(Str(t), Arr(<<t>>)) : t \in ConcImages}

InitConc ==
  /\ variant \in Variants
  /\ env = [AI |-> TRUE, KV |-> TRUE]
  /\ store = [k \in Keys |-> NoEntry]
  /\ live = [k \in Keys |-> NotLive]
  /\ last = NoReq
  /\ reqs = Idle
  /\ drain = NoDrain

\* slot r moves to req; the history follows the response, if one was sent
Step(r, res) ==
  /\ reqs' = [reqs EXCEPT ![r] = res.req]
  /\ store' = res.store
  /\ live' = IF res.req.pc = "done" THEN Answered(variant, live, res.req)
             ELSE live
  /\ UNCHANGED <<variant, env, last, drain>>

ArriveGenerate(r) ==
  /\ reqs[r].pc = "idle"
  /\ \E body \in ConcBodies :
       Step(r, [store |-> store,
                req |-> PostGenerateStart(variant, env, body.ok, body.prompt,
                                          body.userId)])

ArriveGet(r) ==
  /\ reqs[r].pc = "idle"
  /\ variant \in WVariants
  /\ \E param \in ConcParams :
       Step(r, [store |-> store, req |-> GetImageStart(variant, env, param)])

ArriveDelete(r) ==
  /\ reqs[r].pc = "idle"
  /\ variant \in WVariants
  /\ \E param \in ConcParams :
       Step(r, [store |-> store,
                req |-> DeleteImageStart(variant, env, param)])

AiReturns(r) ==
  /\ reqs[r].pc = "awaitAI"
  /\ \E aiOut \in ConcAiOutcomes :
       Step(r, [store |-> store,
                req |-> PostGenerateAfterAI(variant, env, reqs[r], aiOut)])

\* the continuation of a handler suspended at a KV call
KvStep(v, s, req, kvOut) ==
  CASE req.pc = "awaitPut" -> PostGenerateAfterPut(v, s, req, kvOut)
    [] req.pc = "awaitGet" ->
         [store |-> s, req |-> GetImageAfterGet(v, s, req, kvOut)]
    [] req.pc = "awaitDelete" -> DeleteImageAfterDelete(v, s, req, kvOut)

KvAwaits == {"awaitPut", "awaitGet", "awaitDelete"}

KvReturns(r) ==
  /\ reqs[r].pc \in KvAwaits
  /\ \E kvOut \in KvOutcomes : Step(r, KvStep(variant, store, reqs[r], kvOut))

\* the response has been sent; the slot takes the next request
Deliver(r) ==
  /\ reqs[r].pc = "done"
  /\ reqs' = [reqs EXCEPT ![r] = NoReq]
  /\ UNCHANGED <<variant, env, store, live, last, drain>>

ExpireConc ==
  \E k \in Keys :
    /\ store[k].present /\ store[k].ttl > 0
    /\ store' = KvDelete(store, k)
    /\ live' = [live EXCEPT ![k] = NotLive]
    /\ UNCHANGED <<variant, env, last, reqs, drain>>

NextConc ==
  \/ \E r \in Slots : ArriveGenerate(r)
  \/ \E r \in Slots : ArriveGet(r)
  \/ \E r \in Slots : ArriveDelete(r)
  \/ \E r \in Slots : AiReturns(r)
  \/ \E r \in Slots : KvReturns(r)
  \/ \E r \in Slots : Deliver(r)
  \/ ExpireConc

SpecConc == InitConc /\ [][NextConc]_vars

(***************************************************************************)
(* SpecStream: streamToArrayBuffer applied to every stream of the bounds.  *)
(***************************************************************************)
StreamInputs == SeqsUpTo(SeqsUpTo(ByteVals, MaxChunkLen), MaxStreamChunks)

InitStream ==
  /\ variant = "P1"
  /\ env = [AI |-> TRUE, KV |-> TRUE]
  /\ store = [k \in Keys |-> NoEntry]
  /\ live = [k \in Keys |-> NotLive]
  /\ last = NoReq
  /\ reqs = Idle
  /\ drain \in {[pc |-> "called", stream |-> cs, result |-> <<>>] :
                  cs \in StreamInputs}

Drain ==
  /\ drain.pc = "called"
  /\ drain' = [drain EXCEPT !.pc = "returned",
                            !.result = streamToArrayBuffer(drain.stream)]
  /\ UNCHANGED <<variant, env, store, live, last, reqs>>

NextStream == Drain

SpecStream == InitStream /\ [][NextStream]_vars

(***************************************************************************)
(* Properties.                                                             *)
(***************************************************************************)

\* C1: under every user the store holds an artifact exactly when a generate
\* for that user has answered 200 and no delete or expiration of that user
\* has come after it.
C1_ArtifactIffGenerated ==
  \A k \in Keys : store[k].present <=> live[k].some

C1_Witness ==
  /\ last.route = "generate" /\ last.status = 200
  /\ store[AddressedUser(variant, last.userId)].present
  /\ \E k \in Keys : ~store[k].present /\ ~live[k].some

\* the fields an error message names
FieldsNamed(error) ==
  CASE error = "Prompt is required and must be a non-empty string" -> {"prompt"}
    [] error = "userId is required and must be a non-empty string" -> {"userId"}
    [] error = "Prompt and user ID are required" -> {"prompt", "userId"}
    [] OTHER -> {}

\* C2: a decoded body whose prompt and userId are both non-empty text after
\* trimming is not answered 400; a body in which prompt or userId is empty,
\* whitespace-only, missing or not text is answered 400 with a message
\* naming the field, and neither AI.run nor put is called (stated for a
\* deployment with both bindings defined).
C2_Validation ==
  (last.route = "generate" /\ last.bodyOk /\ env.AI /\ env.KV) =>
    /\ (NonEmptyString(last.prompt) /\ NonEmptyString(last.userId))
         => last.status # 400
    /\ ~NonEmptyString(last.prompt)
         => /\ last.status = 400 /\ "prompt" \in FieldsNamed(last.error)
            /\ last.aiCalls = 0 /\ last.putCalls = 0
    /\ (NonEmptyString(last.prompt) /\ ~NonEmptyString(last.userId))
         => /\ last.status = 400 /\ "userId" \in FieldsNamed(last.error)
            /\ last.aiCalls = 0 /\ last.putCalls = 0

\* C3: a GET /image/u that the store answers returns 200 with exactly the
\* image the latest successful generate for u returned, when no delete or
\* expiration of u came after that generate, and 404 otherwise.
C3_ReadYourWrite ==
  (last.route = "get" /\ last.kvOut = "ok") =>
    IF live[last.key].some
    THEN last.status = 200 /\ last.respImage = live[last.key].image
    ELSE last.status = 404

C3_Witness ==
  /\ last.route = "get" /\ last.status = 200
  /\ live[last.key].some /\ last.respImage = live[last.key].image
  /\ last.respImage # <<>>

\* responses of AI.run that no variant can read an image from
UnrecognizedShapes ==
  {AiNumber, AiNull, AiObject(Undefined, Undefined),
   AiObject(Undefined, Arr(<<>>)), AiObject(Str(<<>>), Undefined)}

UpstreamErrors ==
  {"AI service returned invalid response", "Failed to generate image",
   "Failed to generate or store image"}

\* C4: a generate whose AI.run returns an unrecognized shape is answered 500
\* with an error payload, put is not called, and the store is unchanged.
C4_UnrecognizedStep ==
  (last'.route = "generate" /\ last'.aiOut \in UnrecognizedShapes) =>
    /\ last'.status = 500 /\ last'.error \in UpstreamErrors
    /\ last'.putCalls = 0 /\ last'.kvOut = "none"
    /\ store' = store

\* C4, over every step: the answer to an unrecognized shape is a 500 error,
\* no put is made and the store stays as it was.
C4_UnrecognizedShape == [][C4_UnrecognizedStep]_vars

C4_Witness ==
  /\ last.route = "generate" /\ last.aiOut = AiNumber /\ last.status = 500
  /\ \E k \in Keys : store[k].present

RECURSIVE Flatten(_)
Flatten(chunks) ==
  IF chunks = <<>> THEN <<>> ELSE Head(chunks) \o Flatten(Tail(chunks))

\* the bytes a response of one of the three tolerated shapes carries
Carries(aiOut, B) ==
  \/ aiOut.kind = "stream" /\ Flatten(aiOut.chunks) = B
  \/ aiOut.kind = "response" /\ aiOut.bytes = B
  \/ aiOut.kind = "object" /\ aiOut.image = Str(arrayBufferToBase64(B))
  \/ aiOut.kind = "object" /\ aiOut.images = Arr(<<arrayBufferToBase64(B)>>)

\* C5: a generate of part_001 whose AI.run delivers bytes B as a stream, as
\* a Response or in a field of a structured object is not rejected, and
\* stores the encoding of B (stated for non-empty B).
C5_ShapeIndependent ==
  \A B \in Bufs \ {<<>>} :
    (variant = "P1" /\ last.route = "generate" /\ Carries(last.aiOut, B)
       /\ env.KV
       /\ last.kvOut # "throws") =>
      /\ last.status = 200
      /\ store[last.key] = Entry(arrayBufferToBase64(B), last.ttl)

StageOrder ==
  <<"Received", "Validated", "Invoked", "Normalized", "Encoded", "Stored">>

IsIn(x, seq) == \E i \in 1..Len(seq) : seq[i] = x

\* C6: a generate request runs a prefix of the stages Received, Validated,
\* Invoked, Normalized, Encoded, Stored in that order and then answers once;
\* AI.run is called at most once and only after validation, put at most once
\* and only after the result was normalized and encoded, and an error answer
\* comes straight after the stage that failed.
C6_StageOrder ==
  last.route = "generate" =>
    /\ \E n \in 1..Len(StageOrder) :
         last.stages = SubSeq(StageOrder, 1, n) \o <<"Responded">>
    /\ last.responses = 1
    /\ last.aiCalls <= 1 /\ last.putCalls <= 1
    /\ last.aiCalls = 1 <=> IsIn("Invoked", last.stages)
    /\ last.aiCalls = 1 => ValidateBody(variant, last.prompt, last.userId) = ""
    /\ last.putCalls = 1 => (IsIn("Encoded", last.stages) /\ last.aiCalls = 1)
    /\ IsIn("Normalized", last.stages)
         => Normalize(variant, last.aiOut).ok
    /\ IsIn("Stored", last.stages) <=> last.status = 200
    /\ IsIn("Stored", last.stages) => (last.putCalls = 1 /\ last.kvOut = "ok")
    /\ last.status \in {200, 400, 500}

C6_Witness ==
  /\ last.route = "generate" /\ last.status = 200
  /\ last.stages = StageOrder \o <<"Responded">>

\* C7: a DELETE of a non-empty userId that the store does not fail is
\* answered 200 whether or not an artifact is stored; on a userId with no
\* artifact it leaves the store as it is, and a second DELETE leaves the
\* store as the first left it.
C7_DeleteIdempotent ==
  /\ (last.route = "delete" /\ last.key # <<>> /\ env.KV
        /\ last.kvOut # "throws")
       => (last.status = 200 /\ ~store[last.key].present)
  /\ (variant \in WVariants /\ env.KV) =>
       \A k \in Keys :
         LET d1 == DeleteImageAfterDelete(variant, store,
                     DeleteImageStart(variant, env, k), "ok")
             d2 == DeleteImageAfterDelete(variant, d1.store,
                     DeleteImageStart(variant, env, k), "ok")
         IN  /\ d1.req.status = 200 /\ d2.req.status = 200
             /\ ~store[k].present => d1.store = store
             /\ d2.store = d1.store

C7_Witness ==
  /\ last.route = "delete" /\ last.status = 200
  /\ \E k \in Keys : store[k].present

\* the store with every key other than k emptied
Only(s, k) == [j \in Keys |-> IF j = k THEN s[j] ELSE NoEntry]

\* the user a request in flight is made for
RequestUser(v, req) ==
  IF req.route = "generate" THEN AddressedUser(v, req.userId)
  ELSE req.userId.v

\* C8: the continuation of a request for user u writes no key other than u
\* and its response and its effect on u are the same whatever the other keys
\* hold; the continuations of two requests for different users give the same
\* store and the same responses in either order.
C8_OwnKeyOnly ==
  /\ \A r \in Slots : \A o \in KvOutcomes :
       reqs[r].pc \in KvAwaits =>
         LET u == RequestUser(variant, reqs[r])
             a == KvStep(variant, store, reqs[r], o)
             b == KvStep(variant, Only(store, u), reqs[r], o)
         IN  /\ \A k \in Keys \ {u} : a.store[k] = store[k]
             /\ a.req = b.req
             /\ a.store[u] = b.store[u]
  /\ \A r1, r2 \in Slots : \A o1, o2 \in KvOutcomes :
       (/\ r1 # r2
        /\ reqs[r1].pc \in KvAwaits /\ reqs[r2].pc \in KvAwaits
        /\ RequestUser(variant, reqs[r1]) # RequestUser(variant, reqs[r2]))
       => LET a1 == KvStep(variant, store, reqs[r1], o1)
              a2 == KvStep(variant, a1.store, reqs[r2], o2)
              b2 == KvStep(variant, store, reqs[r2], o2)
              b1 == KvStep(variant, b2.store, reqs[r1], o1)
          IN  a2.store = b1.store /\ a1.req = b1.req /\ a2.req = b2.req

C8_Witness ==
  /\ reqs[1].pc = "awaitPut" /\ reqs[2].pc = "awaitGet"
  /\ reqs[1].key # reqs[2].key
  /\ store[reqs[2].key].present

\* C9: streamToArrayBuffer returns the chunks joined in the order read: the
\* length of the result is the sum of the chunk lengths and byte i of chunk
\* j sits at the total length of the chunks before j, plus i.
C9_StreamDrained ==
  drain.pc = "returned" =>
    /\ Len(drain.result) = SumLen(drain.stream)
    /\ \A j \in 1..Len(drain.stream) : \A i \in 1..Len(drain.stream[j]) :
         drain.result[SumLen(SubSeq(drain.stream, 1, j - 1)) + i]
           = drain.stream[j][i]

C9_Witness ==
  /\ drain.pc = "returned"
  /\ drain.stream = << <<0, 255>>, <<>>, <<255>> >>
  /\ drain.result = <<0, 255, 255>>

\* C10: in W1 and W2 every stored value is a non-empty text, and a GET that
\* the store answers returns 404 exactly when no artifact is stored under
\* the user and 200 with the stored value otherwise.
C10_NoEmptyAmbiguity ==
  variant \in WVariants =>
    /\ \A k \in Keys : store[k].present => store[k].value # <<>>
    /\ (last.route = "get" /\ last.kvOut = "ok") =>
         /\ last.status = 404 <=> ~store[last.key].present
         /\ last.status # 404
              => (last.status = 200 /\ last.respImage = store[last.key].value)

C10_Witness ==
  /\ variant \in WVariants
  /\ last.route = "get" /\ last.status = 200
  /\ store[last.key].present /\ last.respImage = store[last.key].value

====
